---- MODULE Spec2Model ----
(***************************************************************************)
(* System Resource Monitor: SystemMonitor (systemMonitor.js), the          *)
(* DashboardController (dashboard.js) and ChatController.generateResponse  *)
(* (chat.js).                                                              *)
(*                                                                         *)
(* Numbers are fixed-point integers:                                       *)
(*   Math.random() results      thousandths            (0.5   -> 500)      *)
(*   cpu.usage                  thousandths of a percent (35  -> 35000)    *)
(*   memory used/total/avail.   thousandths of a GB     (8.5  -> 8500)     *)
(*   disk read/write            thousandths of a MB/s                      *)
(*   network sent/received      thousandths of a KB/s                      *)
(*   process cpu                thousandths of a percent                   *)
(*   process memory             thousandths of a MB                        *)
(*   cpu.frequency              tenths of a GHz         (3.5  -> 35)       *)
(*   formatted numbers          the digits toFixed prints: x.toFixed(1) is *)
(*                              the number of tenths, x.toFixed(0) of units*)
(***************************************************************************)
EXTENDS Integers, Sequences, FiniteSets, TLC

VARIABLES
    metrics,    \* SystemMonitor.metrics, the snapshot object
    display,    \* what DashboardController has written to the DOM
    timer,      \* the setInterval timer of startMonitoring: "off" or "armed"
    ticks,      \* number of completed updateMetrics calls, counted up to MaxTicks
    ret,        \* the most recent call and the value it returned
    snap,       \* the getMetrics calls since the last updateMetrics: None, or
                \* the value last returned, the number of calls (1, 2 for more)
                \* and whether another read ran after the first of them
    pc,         \* position of the running setInterval callback
    version,    \* per group of fields, the number of the tick that last wrote it
    seen,       \* version as the most recent reader of the snapshot found it
    query,      \* generateResponse on its own: the user message
    reply,      \* and the response, None before the call
    config,     \* the CONFIG object the classes read
    lastAlerts, \* content of the alerts area that the latest render replaced
    chatMessages, \* children of the chat container, in document order
    timeouts,   \* armed setTimeout timers of sendMessage
    clock,      \* milliseconds since the page loaded
    asked       \* per sent message, the snapshot current when it was sent
                \* (kept for the properties; the program keeps no such thing)

chatVars == <<chatMessages, timeouts, clock, asked>>

vars == <<metrics, display, timer, ticks, ret, snap, pc, version, seen, query, reply,
          config, lastAlerts, chatVars>>

\* the absent value: undefined, or nothing recorded yet
None == [ none |-> TRUE ]

(***************************************************************************)
(* Bounds of the model.                                                    *)
(***************************************************************************)
NumSeeds == 3     \* number of Math.random() streams a tick can draw from
MaxTicks == 3     \* ticks is exact up to this value and stays there
MaxSent == 2      \* messages sent in the chat
MaxWaits == 2     \* half seconds that pass without any task running
MaxWrites == 1    \* entries a catalog of CONFIG gains or loses
MaxCountedTicks == 21  \* ticks counted exactly where their number matters

(***************************************************************************)
(* config.js                                                               *)
(***************************************************************************)
ALERT_THRESHOLD_CPU == 85
ALERT_THRESHOLD_MEMORY == 85
MAX_PROCESSES_DISPLAY == 8
CPU_CORES == 8
CPU_FREQUENCY == 35
TOTAL_MEMORY == 16
WARNING == 60
DANGER == 80
TYPING_DELAY_MIN == 1000
TYPING_DELAY_MAX == 2000

PROCESS_NAMES ==
    << "chrome.exe", "code.exe", "node.exe", "python.exe", "explorer.exe",
       "firefox.exe", "docker.exe", "postgres.exe", "mysql.exe", "nginx.exe",
       "java.exe", "teams.exe", "slack.exe", "spotify.exe", "system" >>

OS_TOPICS ==
    [ CPU      |-> << "scheduling", "context switching", "multi-core", "interrupts" >>,
      MEMORY   |-> << "virtual memory", "paging", "segmentation", "cache" >>,
      PROCESS  |-> << "PCB", "states", "IPC", "synchronization" >>,
      DISK     |-> << "file system", "I/O scheduling", "buffering", "caching" >>,
      DEADLOCK |-> << "conditions", "prevention", "detection", "recovery" >> ]

\* the values of the CONFIG object that SystemMonitor reads, and its two
\* catalogs
CONFIG ==
    [ ALERT_THRESHOLD_CPU    |-> ALERT_THRESHOLD_CPU,
      ALERT_THRESHOLD_MEMORY |-> ALERT_THRESHOLD_MEMORY,
      CPU_CORES              |-> CPU_CORES,
      CPU_FREQUENCY          |-> CPU_FREQUENCY,
      TOTAL_MEMORY           |-> TOTAL_MEMORY,
      PROCESS_NAMES          |-> PROCESS_NAMES,
      OS_TOPICS              |-> OS_TOPICS ]

\* the objects that config.js passes to Object.freeze
Frozen ==
    { "CONFIG", "CONFIG.MONITORING", "CONFIG.SYSTEM", "CONFIG.THRESHOLDS", "CONFIG.CHAT",
      "CONFIG.OS_TOPICS" }

(***************************************************************************)
(* Math.random().  A tick draws one value for the cpu walk and one for the *)
(* memory walk from WalkDraws, and every later value (disk, network, the   *)
(* process table) from one of NumSeeds streams; Rnd(s, k) is the k-th      *)
(* value of stream s.  In WalkDraws, 1000 stands for the largest double    *)
(* below 1: (r - 0.5) * 10 is then 4.999999999999999 and the IEEE sum      *)
(* usage + 4.999999999999999 rounds to usage + 5 (likewise used + 0.25).   *)
(***************************************************************************)
WalkDraws == {0, 1000}

Seeds == 1..NumSeeds

Rnd(s, k) == 50 * ((2 * k * k + 3 * s * k + 9 * s + 4 * k) % 20)

Min(a, b) == IF a < b THEN a ELSE b
Max(a, b) == IF a > b THEN a ELSE b

(***************************************************************************)
(* SystemMonitor.constructor                                               *)
(***************************************************************************)
InitialMetrics ==
    [ cpu       |-> [ usage |-> 35000, cores |-> CPU_CORES, frequency |-> CPU_FREQUENCY ],
      memory    |-> [ used |-> 8500, total |-> TOTAL_MEMORY * 1000,
                      available |-> TOTAL_MEMORY * 1000 - 8500 ],
      disk      |-> [ read |-> 0, write |-> 0, usage |-> 45 ],
      network   |-> [ sent |-> 0, received |-> 0 ],
      processes |-> << >> ]

\* the constructor under any CONFIG: it copies the values as they are
constructor(cfg) ==
    [ cpu       |-> [ usage |-> 35000, cores |-> cfg.CPU_CORES,
                      frequency |-> cfg.CPU_FREQUENCY ],
      memory    |-> [ used |-> 8500, total |-> cfg.TOTAL_MEMORY * 1000,
                      available |-> cfg.TOTAL_MEMORY * 1000 - 8500 ],
      disk      |-> [ read |-> 0, write |-> 0, usage |-> 45 ],
      network   |-> [ sent |-> 0, received |-> 0 ],
      processes |-> << >> ]

(***************************************************************************)
(* SystemMonitor.getRandomProcessState: states[Math.floor(r * 4)]          *)
(***************************************************************************)
ProcessStates == << "running", "ready", "waiting", "sleeping" >>

getRandomProcessState(r) == ProcessStates[((r * Len(ProcessStates)) \div 1000) + 1]

(***************************************************************************)
(* SystemMonitor.generateProcesses.  The map callback draws, per name and  *)
(* in this order: pid, cpu, memory, status (a second draw only when the    *)
(* first is not above 0.8), state.  k is the index of the next draw.       *)
(***************************************************************************)
\* a fourth tag for the draws above 0.8
ProcessStatusWithCritical(r1, r2) ==
    IF r1 > 800 THEN "critical" ELSE (IF r2 > 500 THEN "medium" ELSE "low")

ProcessStatus(r1, r2) ==
    IF r1 > 800 THEN "high" ELSE (IF r2 > 500 THEN "medium" ELSE "low")

RECURSIVE MapProcesses(_, _, _)
MapProcesses(s, i, k) ==
    IF i > Len(PROCESS_NAMES) THEN << >>
    ELSE LET r1   == Rnd(s, k + 3)
             n    == IF r1 > 800 THEN 5 ELSE 6
             proc == [ name   |-> PROCESS_NAMES[i],
                       pid    |-> 1000 + ((Rnd(s, k) * 9000) \div 1000),
                       cpu    |-> Rnd(s, k + 1) * 25,
                       memory |-> Rnd(s, k + 2) * 1024,
                       status |-> ProcessStatus(r1, Rnd(s, k + 4)),
                       state  |-> getRandomProcessState(Rnd(s, k + n - 1)) ]
         IN  << proc >> \o MapProcesses(s, i + 1, k + n)

\* Array.prototype.sort with (a, b) => b.cpu - a.cpu: stable, descending by cpu
RECURSIVE InsertByCpu(_, _)
InsertByCpu(p, sorted) ==
    IF sorted = << >> THEN << p >>
    ELSE IF Head(sorted).cpu >= p.cpu
         THEN << Head(sorted) >> \o InsertByCpu(p, Tail(sorted))
         ELSE << p >> \o sorted

RECURSIVE SortByCpu(_)
SortByCpu(seq) ==
    IF seq = << >> THEN << >>
    ELSE InsertByCpu(seq[Len(seq)], SortByCpu(SubSeq(seq, 1, Len(seq) - 1)))

\* Array.prototype.slice(0, n)
Slice(seq, n) == SubSeq(seq, 1, Min(n, Len(seq)))

\* generateProcesses without the sort
generateProcessesUnsorted(s, k) ==
    Slice(MapProcesses(s, 1, k), MAX_PROCESSES_DISPLAY)

generateProcesses(s, k) ==
    Slice(SortByCpu(MapProcesses(s, 1, k)), MAX_PROCESSES_DISPLAY)

\* the same map, sort and slice over any catalog of names
RECURSIVE MapNames(_, _, _, _)
MapNames(names, s, i, k) ==
    IF i > Len(names) THEN << >>
    ELSE LET r1   == Rnd(s, k + 3)
             n    == IF r1 > 800 THEN 5 ELSE 6
             proc == [ name   |-> names[i],
                       pid    |-> 1000 + ((Rnd(s, k) * 9000) \div 1000),
                       cpu    |-> Rnd(s, k + 1) * 25,
                       memory |-> Rnd(s, k + 2) * 1024,
                       status |-> ProcessStatus(r1, Rnd(s, k + 4)),
                       state  |-> getRandomProcessState(Rnd(s, k + n - 1)) ]
         IN  << proc >> \o MapNames(names, s, i + 1, k + n)

generateProcessesOf(names, s, k) ==
    Slice(SortByCpu(MapNames(names, s, 1, k)), MAX_PROCESSES_DISPLAY)

(***************************************************************************)
(* SystemMonitor.updateMetrics, one operator per statement group.          *)
(***************************************************************************)
\* the cpu walk without its clamp
UpdateCpuUnclamped(m, r) ==
    [ m EXCEPT !.cpu.usage = m.cpu.usage + (r - 500) * 10 ]

UpdateCpu(m, r) ==
    [ m EXCEPT !.cpu.usage = Max(5000, Min(95000, m.cpu.usage + (r - 500) * 10)) ]

\* the memory walk without the recomputation of available
UpdateMemoryStaleAvailable(m, r) ==
    [ m EXCEPT !.memory.used = Max(2000, Min(14000, m.memory.used + ((r - 500) \div 2))) ]

UpdateMemory(m, r) ==
    LET used == Max(2000, Min(14000, m.memory.used + ((r - 500) \div 2)))
    IN  [ m EXCEPT !.memory.used = used,
                   !.memory.available = m.memory.total - used ]

\* the disk statements drawing the space usage as well
UpdateDiskWithUsage(m, s) ==
    [ m EXCEPT !.disk.read = Rnd(s, 1) * 150, !.disk.write = Rnd(s, 2) * 100,
               !.disk.usage = Rnd(s, 3) \div 10 ]

UpdateDisk(m, s) ==
    [ m EXCEPT !.disk.read = Rnd(s, 1) * 150, !.disk.write = Rnd(s, 2) * 100 ]

UpdateNetwork(m, s) ==
    [ m EXCEPT !.network.sent = Rnd(s, 3) * 500, !.network.received = Rnd(s, 4) * 800 ]

\* the table generateProcesses returns on each stream, after the four draws
\* of the disk and network statements
ProcessTables == [ s \in Seeds |-> generateProcesses(s, 5) ]

UpdateProcesses(m, s) ==
    [ m EXCEPT !.processes = ProcessTables[s] ]

\* the cpu walk taking two steps in one tick
updateMetricsWalkingTwice(m, rc, rm, s) ==
    UpdateProcesses(UpdateNetwork(UpdateDisk(UpdateMemory(
        UpdateCpu(UpdateCpu(m, rc), rc), rm), s), s), s)

updateMetrics(m, rc, rm, s) ==
    UpdateProcesses(UpdateNetwork(UpdateDisk(UpdateMemory(UpdateCpu(m, rc), rm), s), s), s)

(***************************************************************************)
(* SystemMonitor.getMetrics, checkAlerts, getProcessByPID,                 *)
(* getContextSwitches                                                      *)
(***************************************************************************)
getMetrics(m) == m

CpuAlert == [ type |-> "cpu", severity |-> "high" ]
MemoryAlert == [ type |-> "memory", severity |-> "high" ]

\* memoryPercent = (used / total) * 100 compared with the threshold, as an
\* exact comparison of rationals
MemoryPercentAbove(m, threshold) == m.memory.used * 100 > threshold * m.memory.total

\* checkAlerts with >= in the cpu test
checkAlertsAtThreshold(m) ==
    (IF m.cpu.usage >= ALERT_THRESHOLD_CPU * 1000 THEN << CpuAlert >> ELSE << >>)
    \o (IF MemoryPercentAbove(m, ALERT_THRESHOLD_MEMORY) THEN << MemoryAlert >> ELSE << >>)

checkAlerts(m) ==
    (IF m.cpu.usage > ALERT_THRESHOLD_CPU * 1000 THEN << CpuAlert >> ELSE << >>)
    \o (IF MemoryPercentAbove(m, ALERT_THRESHOLD_MEMORY) THEN << MemoryAlert >> ELSE << >>)

\* (used / total) * 100 > threshold for a total of any sign: the quotient
\* by zero is Infinity for a positive used
PercentAbove(used, total, threshold) ==
    IF total > 0 THEN used * 100 > threshold * total
    ELSE IF total < 0 THEN used * 100 < threshold * total
    ELSE used > 0

\* checkAlerts reading the thresholds of any CONFIG
checkAlertsUnder(cfg, m) ==
    (IF m.cpu.usage > cfg.ALERT_THRESHOLD_CPU * 1000 THEN << CpuAlert >> ELSE << >>)
    \o (IF PercentAbove(m.memory.used, m.memory.total, cfg.ALERT_THRESHOLD_MEMORY)
        THEN << MemoryAlert >> ELSE << >>)

NotFound == None

\* the last entry with the pid instead of the first (findLast for find)
getProcessByPIDLast(m, pid) ==
    IF \E i \in 1..Len(m.processes) : m.processes[i].pid = pid
    THEN m.processes[CHOOSE i \in 1..Len(m.processes) :
                        /\ m.processes[i].pid = pid
                        /\ \A j \in (i + 1)..Len(m.processes) : m.processes[j].pid # pid]
    ELSE NotFound

getProcessByPID(m, pid) ==
    IF \E i \in 1..Len(m.processes) : m.processes[i].pid = pid
    THEN m.processes[CHOOSE i \in 1..Len(m.processes) :
                        /\ m.processes[i].pid = pid
                        /\ \A j \in 1..(i - 1) : m.processes[j].pid # pid]
    ELSE NotFound

\* Math.floor(usage * 10)
getContextSwitchesTimesTen(m) == m.cpu.usage \div 100

\* Math.floor(usage * 100)
getContextSwitches(m) == m.cpu.usage \div 10

(***************************************************************************)
(* Number.prototype.toFixed: the nearest multiple of 1/10^digits, the      *)
(* larger one on a tie.  RoundDiv(x, d) is x / d rounded that way.         *)
(***************************************************************************)
RoundDiv(x, d) == (2 * x + d) \div (2 * d)

(***************************************************************************)
(* DashboardController (dashboard.js)                                      *)
(***************************************************************************)
\* getProgressClass(value), value in tenths of a percent
getProgressClass(value) ==
    IF value > DANGER * 10 THEN "danger"
    ELSE IF value > WARNING * 10 THEN "warning"
    ELSE ""

\* ((memory.used / memory.total) * 100).toFixed(1)
MemoryPercentFixed1(m) == RoundDiv(m.memory.used * 1000, m.memory.total)

updateCPU(cpu) ==
    LET cpuPercent == RoundDiv(cpu.usage, 100)
    IN  [ cpuValue |-> cpuPercent, cpuWidth |-> cpuPercent,
          cpuClass |-> getProgressClass(cpuPercent) ]

updateMemory(m) ==
    LET memoryPercent == MemoryPercentFixed1(m)
    IN  [ memoryValue |-> memoryPercent,
          memoryLabel |-> << RoundDiv(m.memory.used, 100), m.memory.total \div 1000 >>,
          memoryWidth |-> memoryPercent,
          memoryClass |-> getProgressClass(memoryPercent) ]

updateDisk(disk) ==
    LET diskTotal == disk.read + disk.write
    IN  [ diskValue |-> RoundDiv(diskTotal, 100),
          diskWidth |-> Min(100000, diskTotal \div 2) ]

updateNetwork(network) ==
    LET networkTotal == network.sent + network.received
    IN  [ networkValue |-> RoundDiv(networkTotal, 1000),
          networkWidth |-> Min(100000, networkTotal \div 10) ]

updateProcessTable(processes) ==
    [ i \in 1..Len(processes) |->
        [ name   |-> processes[i].name,
          pid    |-> processes[i].pid,
          cpu    |-> RoundDiv(processes[i].cpu, 100),
          memory |-> RoundDiv(processes[i].memory, 1000),
          status |-> processes[i].status ] ]

updateAlerts(m) ==
    LET alerts == checkAlerts(m)
    IN  IF Len(alerts) > 0 THEN [ i \in 1..Len(alerts) |-> alerts[i].type ] ELSE << >>

updateDashboard(m) ==
    [ cpu       |-> updateCPU(getMetrics(m).cpu),
      memory    |-> updateMemory(getMetrics(m)),
      disk      |-> updateDisk(getMetrics(m).disk),
      network   |-> updateNetwork(getMetrics(m).network),
      processes |-> updateProcessTable(getMetrics(m).processes),
      alerts    |-> updateAlerts(m) ]

(***************************************************************************)
(* String.prototype.toLowerCase and String.prototype.includes              *)
(***************************************************************************)
UpperCaseLetters == "ABCDEFGHIJKLMNOPQRSTUVWXYZ"
LowerCaseLetters == "abcdefghijklmnopqrstuvwxyz"

LowerChar(c) ==
    IF \E i \in 1..Len(UpperCaseLetters) : SubSeq(UpperCaseLetters, i, i) = c
    THEN LET i == CHOOSE j \in 1..Len(UpperCaseLetters) : SubSeq(UpperCaseLetters, j, j) = c
         IN  SubSeq(LowerCaseLetters, i, i)
    ELSE c

RECURSIVE toLowerCase(_)
toLowerCase(str) ==
    IF Len(str) = 0 THEN ""
    ELSE LowerChar(SubSeq(str, 1, 1)) \o toLowerCase(SubSeq(str, 2, Len(str)))

includes(str, sub) ==
    \E i \in 1..(Len(str) - Len(sub) + 1) : SubSeq(str, i, i + Len(sub) - 1) = sub

(***************************************************************************)
(* ChatController.generateResponse (chat.js).  A response is the name of   *)
(* its template with the values interpolated into it.  One operator per    *)
(* if-statement of the function, each continuing with the next one when    *)
(* the statement does not return.                                          *)
(***************************************************************************)
\* the high-usage clause added from 70 percent on
CpuStatusResponseFromSeventy(m) ==
    [ template        |-> "CurrentCpuStatus",
      usage           |-> RoundDiv(m.cpu.usage, 100),
      cores           |-> m.cpu.cores,
      frequency       |-> m.cpu.frequency,
      high            |-> m.cpu.usage >= 70000,
      contextSwitches |-> getContextSwitches(m) ]

CpuStatusResponse(m) ==
    [ template        |-> "CurrentCpuStatus",
      usage           |-> RoundDiv(m.cpu.usage, 100),
      cores           |-> m.cpu.cores,
      frequency       |-> m.cpu.frequency,
      high            |-> m.cpu.usage > 70000,
      contextSwitches |-> getContextSwitches(m) ]

CpuTheoryResponse(m) ==
    [ template |-> "CpuProcessManagement", cores |-> m.cpu.cores ]

\* memPercent is the toFixed(1) string; memPercent > 80 compares its number
MemoryStatusResponse(m) ==
    LET memPercent == MemoryPercentFixed1(m)
    IN  [ template   |-> "MemoryStatus",
          used       |-> RoundDiv(m.memory.used, 10),
          memPercent |-> memPercent,
          available  |-> RoundDiv(m.memory.available, 10),
          total      |-> m.memory.total \div 1000,
          pressure   |-> memPercent > 800 ]

MemoryTheoryResponse == [ template |-> "VirtualMemoryManagement" ]

TopProcessesResponse(m) ==
    LET topProcesses == Slice(m.processes, 5)
    IN  [ template |-> "TopProcesses",
          rows     |-> [ i \in 1..Len(topProcesses) |->
                           [ name   |-> topProcesses[i].name,
                             pid    |-> topProcesses[i].pid,
                             cpu    |-> RoundDiv(topProcesses[i].cpu, 100),
                             memory |-> RoundDiv(topProcesses[i].memory, 1000) ] ] ]

ProcessTheoryResponse(m) ==
    [ template |-> "ProcessManagement", count |-> Len(m.processes) ]

DiskResponse(m) ==
    [ template |-> "DiskIOStatus",
      read     |-> RoundDiv(m.disk.read, 100),
      write    |-> RoundDiv(m.disk.write, 100),
      total    |-> RoundDiv(m.disk.read + m.disk.write, 100),
      usage    |-> m.disk.usage ]

NetworkResponse(m) ==
    [ template |-> "NetworkActivity",
      sent     |-> RoundDiv(m.network.sent, 1000),
      received |-> RoundDiv(m.network.received, 1000),
      total    |-> RoundDiv(m.network.sent + m.network.received, 1000) ]

\* the cpu recommendation given above 90 percent only
OptimizationResponseAboveNinety(m) ==
    [ template |-> "OptimizationRecommendations",
      cpu      |-> m.cpu.usage > 90000,
      memory   |-> m.memory.used * 10 > 7 * m.memory.total ]

OptimizationResponse(m) ==
    [ template |-> "OptimizationRecommendations",
      cpu      |-> m.cpu.usage > 70000,
      memory   |-> m.memory.used * 10 > 7 * m.memory.total ]

SchedulingResponse == [ template |-> "CpuSchedulingAlgorithms" ]
DeadlockResponse == [ template |-> "DeadlockInOS" ]
FileSystemResponse == [ template |-> "FileSystemManagement" ]
DefaultResponse == [ template |-> "Default" ]

\* what a call yields when it ends without a return statement
Undefined == [ undefined |-> TRUE ]

\* the chain ending without the closing return of the default text
FileSystemQueriesNoDefault(l, m) ==
    IF includes(l, "file") \/ includes(l, "filesystem") \/ includes(l, "directory")
    THEN FileSystemResponse
    ELSE Undefined

FileSystemQueries(l, m) ==
    IF includes(l, "file system") \/ includes(l, "filesystem")
    THEN FileSystemResponse
    ELSE DefaultResponse

DeadlockQueries(l, m) ==
    IF includes(l, "deadlock") THEN DeadlockResponse ELSE FileSystemQueries(l, m)

SchedulingQueries(l, m) ==
    IF includes(l, "schedul") \/ includes(l, "algorithm")
    THEN SchedulingResponse
    ELSE DeadlockQueries(l, m)

OptimizationQueries(l, m) ==
    IF includes(l, "optimize") \/ includes(l, "improve") \/ includes(l, "recommend")
    THEN OptimizationResponse(m)
    ELSE SchedulingQueries(l, m)

NetworkQueries(l, m) ==
    IF includes(l, "network") \/ includes(l, "internet")
    THEN NetworkResponse(m)
    ELSE OptimizationQueries(l, m)

\* the disk statement placed after the scheduling statement
DiskQueriesAfterScheduling(l, m) ==
    IF includes(l, "schedul") \/ includes(l, "algorithm")
    THEN SchedulingResponse
    ELSE IF includes(l, "disk") \/ includes(l, "i/o") \/ includes(l, "storage")
         THEN DiskResponse(m)
         ELSE NetworkQueries(l, m)

DiskQueries(l, m) ==
    IF includes(l, "disk") \/ includes(l, "i/o") \/ includes(l, "storage")
    THEN DiskResponse(m)
    ELSE NetworkQueries(l, m)

ProcessQueries(l, m) ==
    IF includes(l, "process") \/ includes(l, "application") \/ includes(l, "top")
    THEN IF includes(l, "using") \/ includes(l, "consuming") \/ includes(l, "most")
         THEN TopProcessesResponse(m)
         ELSE IF includes(l, "explain") \/ includes(l, "what is")
              THEN ProcessTheoryResponse(m)
              ELSE DiskQueries(l, m)
    ELSE DiskQueries(l, m)

\* the virtual-memory text carrying the live used figure
MemoryQueriesLiveTheory(l, m) ==
    IF includes(l, "memory") \/ includes(l, "ram")
    THEN IF includes(l, "usage") \/ includes(l, "current") \/ includes(l, "show")
         THEN MemoryStatusResponse(m)
         ELSE IF includes(l, "virtual") \/ includes(l, "explain")
              THEN [ template |-> "VirtualMemoryManagement",
                     used     |-> RoundDiv(m.memory.used, 10) ]
              ELSE ProcessQueries(l, m)
    ELSE ProcessQueries(l, m)

MemoryQueries(l, m) ==
    IF includes(l, "memory") \/ includes(l, "ram")
    THEN IF includes(l, "usage") \/ includes(l, "current") \/ includes(l, "show")
         THEN MemoryStatusResponse(m)
         ELSE IF includes(l, "virtual") \/ includes(l, "explain")
              THEN MemoryTheoryResponse
              ELSE ProcessQueries(l, m)
    ELSE ProcessQueries(l, m)

\* the cpu statement returning the default text when no secondary keyword
\* matches, instead of leaving the if-block
CpuQueriesEarlyReturn(l, m) ==
    IF includes(l, "cpu") \/ includes(l, "processor")
    THEN IF includes(l, "usage") \/ includes(l, "current")
         THEN CpuStatusResponse(m)
         ELSE IF includes(l, "explain") \/ includes(l, "what is")
              THEN CpuTheoryResponse(m)
              ELSE DefaultResponse
    ELSE MemoryQueries(l, m)

CpuQueries(l, m) ==
    IF includes(l, "cpu") \/ includes(l, "processor")
    THEN IF includes(l, "usage") \/ includes(l, "current")
         THEN CpuStatusResponse(m)
         ELSE IF includes(l, "explain") \/ includes(l, "what is")
              THEN CpuTheoryResponse(m)
              ELSE MemoryQueries(l, m)
    ELSE MemoryQueries(l, m)

generateResponse(userMessage, m) ==
    CpuQueries(toLowerCase(userMessage), getMetrics(m))

(***************************************************************************)
(* State after construction: new SystemMonitor(), new DashboardController, *)
(* nothing rendered and no timer yet.                                      *)
(***************************************************************************)
Blank == "blank"

Call(op, arg, val) == [ op |-> op, arg |-> arg, val |-> val ]

FieldGroups == {"cpu", "memory", "disk", "network", "processes"}

Idle == [ at |-> "idle", seed |-> 0 ]

Init ==
    /\ metrics = InitialMetrics
    /\ display = Blank
    /\ timer = "off"
    /\ ticks = 0
    /\ ret = Call("constructor", None, None)
    /\ snap = None
    /\ pc = Idle
    /\ version = [ f \in FieldGroups |-> 0 ]
    /\ seen = [ f \in FieldGroups |-> 0 ]
    /\ query = None
    /\ reply = None
    /\ config = CONFIG
    /\ lastAlerts = << >>
    /\ chatMessages = << >>
    /\ timeouts = {}
    /\ clock = 0
    /\ asked = << >>

(***************************************************************************)
(* The browser runs one task at a time: a timer callback or a call from    *)
(* the console starts only when no other task is on the call stack.        *)
(***************************************************************************)
\* updateMetrics yielding to the event loop between its statements
CallStackEmptyOrAwaiting == pc.at \in {"idle", "memory", "disk", "network", "processes"}

CallStackEmpty == pc.at = "idle"

\* a later read between two getMetrics calls is recorded in snap
ReadAfterSnapshot == IF snap = None THEN None ELSE [ snap EXCEPT !.between = TRUE ]

(***************************************************************************)
(* DashboardController.startMonitoring: the initial updateDashboard and    *)
(* setInterval.                                                            *)
(***************************************************************************)
\* startMonitoring calling updateMetrics before its first render
StartMonitoringTickingFirst ==
    /\ CallStackEmpty
    /\ timer = "off"
    /\ \E rc \in WalkDraws, rm \in WalkDraws, s \in Seeds :
          metrics' = updateMetrics(metrics, rc, rm, s)
    /\ display' = updateDashboard(metrics')
    /\ version' = [ f \in FieldGroups |-> 1 ]
    /\ seen' = version'
    /\ timer' = "armed"
    /\ ret' = Call("startMonitoring", None, None)
    /\ snap' = None
    /\ lastAlerts' = << >>
    /\ UNCHANGED <<ticks, pc, query, reply, config, chatVars>>

StartMonitoring ==
    /\ CallStackEmpty
    /\ timer = "off"
    /\ display' = updateDashboard(metrics)
    /\ seen' = version
    /\ timer' = "armed"
    /\ ret' = Call("startMonitoring", None, None)
    /\ snap' = ReadAfterSnapshot
    /\ lastAlerts' = << >>
    /\ UNCHANGED <<metrics, ticks, pc, version, query, reply, config, chatVars>>

(***************************************************************************)
(* The setInterval callback as one task: updateMetrics() then              *)
(* updateDashboard().                                                      *)
(***************************************************************************)
\* updateAlerts without its else branch: the area keeps its content when
\* checkAlerts returns no alert
IntervalCallbackKeepingAlerts ==
    /\ CallStackEmpty
    /\ timer = "armed"
    /\ \E rc \in WalkDraws, rm \in WalkDraws, s \in Seeds :
          metrics' = updateMetrics(metrics, rc, rm, s)
    /\ ticks' = Min(ticks + 1, MaxTicks)
    /\ version' = [ f \in FieldGroups |-> ticks' ]
    /\ display' = [ updateDashboard(metrics') EXCEPT !.alerts =
                       IF updateAlerts(metrics') = << >>
                       THEN display.alerts ELSE updateAlerts(metrics') ]
    /\ seen' = version'
    /\ ret' = Call("updateMetrics", None, None)
    /\ snap' = None
    /\ lastAlerts' = display.alerts
    /\ UNCHANGED <<timer, pc, query, reply, config, chatVars>>

IntervalCallback ==
    /\ CallStackEmpty
    /\ timer = "armed"
    /\ \E rc \in WalkDraws, rm \in WalkDraws, s \in Seeds :
          metrics' = updateMetrics(metrics, rc, rm, s)
    /\ ticks' = Min(ticks + 1, MaxTicks)
    /\ version' = [ f \in FieldGroups |-> ticks' ]
    /\ display' = updateDashboard(metrics')
    /\ seen' = version'
    /\ ret' = Call("updateMetrics", None, None)
    /\ snap' = None
    /\ lastAlerts' = display.alerts
    /\ UNCHANGED <<timer, pc, query, reply, config, chatVars>>

\* the same callback with ticks counting every tick, up to MaxCountedTicks
CountedIntervalCallback ==
    /\ CallStackEmpty
    /\ timer = "armed"
    /\ ticks < MaxCountedTicks
    /\ \E rc \in WalkDraws, rm \in WalkDraws, s \in Seeds :
          metrics' = updateMetrics(metrics, rc, rm, s)
    /\ ticks' = ticks + 1
    /\ version' = [ f \in FieldGroups |-> ticks' ]
    /\ display' = updateDashboard(metrics')
    /\ seen' = version'
    /\ ret' = Call("updateMetrics", None, None)
    /\ snap' = None
    /\ lastAlerts' = display.alerts
    /\ UNCHANGED <<timer, pc, query, reply, config, chatVars>>

\* the same callback, for the specifications that stop after MaxTicks ticks
BoundedIntervalCallback ==
    /\ ticks < MaxTicks
    /\ IntervalCallback

(***************************************************************************)
(* The setInterval callback statement by statement: pc.at names the next   *)
(* statement group of updateMetrics, pc.seed the Math.random() stream.     *)
(***************************************************************************)
TickCpu ==
    /\ CallStackEmpty
    /\ timer = "armed"
    /\ ticks < MaxTicks
    /\ \E r \in WalkDraws : metrics' = UpdateCpu(metrics, r)
    /\ version' = [ version EXCEPT !["cpu"] = ticks + 1 ]
    /\ pc' = [ at |-> "memory", seed |-> 0 ]
    /\ ret' = Call("updateMetrics", None, None)
    /\ snap' = None
    /\ UNCHANGED <<display, timer, ticks, seen, query, reply,
                   config, lastAlerts, chatVars>>

TickMemory ==
    /\ pc.at = "memory"
    /\ \E r \in WalkDraws : metrics' = UpdateMemory(metrics, r)
    /\ version' = [ version EXCEPT !["memory"] = ticks + 1 ]
    /\ pc' = [ at |-> "disk", seed |-> 0 ]
    /\ UNCHANGED <<display, timer, ticks, ret, snap, seen, query, reply,
                   config, lastAlerts, chatVars>>

TickDisk ==
    /\ pc.at = "disk"
    /\ \E s \in Seeds :
          /\ metrics' = UpdateDisk(metrics, s)
          /\ pc' = [ at |-> "network", seed |-> s ]
    /\ version' = [ version EXCEPT !["disk"] = ticks + 1 ]
    /\ UNCHANGED <<display, timer, ticks, ret, snap, seen, query, reply,
                   config, lastAlerts, chatVars>>

TickNetwork ==
    /\ pc.at = "network"
    /\ metrics' = UpdateNetwork(metrics, pc.seed)
    /\ version' = [ version EXCEPT !["network"] = ticks + 1 ]
    /\ pc' = [ pc EXCEPT !.at = "processes" ]
    /\ UNCHANGED <<display, timer, ticks, ret, snap, seen, query, reply,
                   config, lastAlerts, chatVars>>

TickProcesses ==
    /\ pc.at = "processes"
    /\ metrics' = UpdateProcesses(metrics, pc.seed)
    /\ version' = [ version EXCEPT !["processes"] = ticks + 1 ]
    /\ ticks' = ticks + 1
    /\ pc' = [ at |-> "updateDashboard", seed |-> 0 ]
    /\ UNCHANGED <<display, timer, ret, snap, seen, query, reply,
                   config, lastAlerts, chatVars>>

TickRender ==
    /\ pc.at = "updateDashboard"
    /\ display' = updateDashboard(metrics)
    /\ seen' = version
    /\ pc' = Idle
    /\ lastAlerts' = display.alerts
    /\ UNCHANGED <<metrics, timer, ticks, ret, snap, version, query, reply, config, chatVars>>

(***************************************************************************)
(* Calls of the read operations of SystemMonitor by any consumer.          *)
(***************************************************************************)
PidInputs == {3700, 7300, 8650, 4242}

GetMetrics ==
    /\ CallStackEmpty
    /\ ret' = Call("getMetrics", None, getMetrics(metrics))
    /\ snap' = IF snap = None
               THEN [ val |-> getMetrics(metrics), calls |-> 1, between |-> FALSE ]
               ELSE [ snap EXCEPT !.val = getMetrics(metrics), !.calls = 2 ]
    /\ seen' = version
    /\ UNCHANGED <<metrics, display, timer, ticks, pc, version, query, reply,
                   config, lastAlerts, chatVars>>

CheckAlerts ==
    /\ CallStackEmpty
    /\ ret' = Call("checkAlerts", None, checkAlerts(metrics))
    /\ snap' = ReadAfterSnapshot
    /\ seen' = version
    /\ UNCHANGED <<metrics, display, timer, ticks, pc, version, query, reply,
                   config, lastAlerts, chatVars>>

\* getProcessByPID taking the entry out of the table (splice instead of find)
GetProcessByPIDRemoving ==
    /\ CallStackEmpty
    /\ \E pid \in PidInputs :
          /\ ret' = Call("getProcessByPID", pid, getProcessByPID(metrics, pid))
          /\ metrics' = [ metrics EXCEPT !.processes =
                            SelectSeq(metrics.processes, LAMBDA proc : proc.pid # pid) ]
    /\ snap' = ReadAfterSnapshot
    /\ seen' = version
    /\ UNCHANGED <<display, timer, ticks, pc, version, query, reply,
                   config, lastAlerts, chatVars>>

GetProcessByPID ==
    /\ CallStackEmpty
    /\ \E pid \in PidInputs :
          ret' = Call("getProcessByPID", pid, getProcessByPID(metrics, pid))
    /\ snap' = ReadAfterSnapshot
    /\ seen' = version
    /\ UNCHANGED <<metrics, display, timer, ticks, pc, version, query, reply,
                   config, lastAlerts, chatVars>>

GetContextSwitches ==
    /\ CallStackEmpty
    /\ ret' = Call("getContextSwitches", None, getContextSwitches(metrics))
    /\ snap' = ReadAfterSnapshot
    /\ seen' = version
    /\ UNCHANGED <<metrics, display, timer, ticks, pc, version, query, reply,
                   config, lastAlerts, chatVars>>

(***************************************************************************)
(* The setTimeout callback of sendMessage calling generateResponse.        *)
(***************************************************************************)
TimerQueries ==
    { "What is my current CPU usage?", "Tell me about deadlock",
      "Which processes are using most resources?" }

\* generateResponse taking the top entries out of the table (splice instead
\* of slice)
GenerateResponseSplicing ==
    /\ CallStackEmpty
    /\ \E q \in TimerQueries :
          /\ ret' = Call("generateResponse", q, generateResponse(q, metrics))
          /\ metrics' = IF ret'.val.template = "TopProcesses"
                        THEN [ metrics EXCEPT !.processes =
                                 SubSeq(metrics.processes, 6, Len(metrics.processes)) ]
                        ELSE metrics
    /\ snap' = ReadAfterSnapshot
    /\ seen' = version
    /\ UNCHANGED <<display, timer, ticks, pc, version, query, reply,
                   config, lastAlerts, chatVars>>

GenerateResponse ==
    /\ CallStackEmpty
    /\ \E q \in TimerQueries :
          ret' = Call("generateResponse", q, generateResponse(q, metrics))
    /\ snap' = ReadAfterSnapshot
    /\ seen' = version
    /\ UNCHANGED <<metrics, display, timer, ticks, pc, version, query, reply,
                   config, lastAlerts, chatVars>>

(***************************************************************************)
(* ChatController (chat.js): the children of the chat container, and       *)
(* sendMessage with the setTimeout callback it arms.  An element records   *)
(* the number of the sendMessage call it belongs to and the time at which  *)
(* that call's timer is due; neither is in the document.                   *)
(***************************************************************************)
WhiteSpace == {" "}

RECURSIVE trimStart(_)
trimStart(str) ==
    IF Len(str) > 0 /\ SubSeq(str, 1, 1) \in WhiteSpace
    THEN trimStart(SubSeq(str, 2, Len(str)))
    ELSE str

RECURSIVE trimEnd(_)
trimEnd(str) ==
    IF Len(str) > 0 /\ SubSeq(str, Len(str), Len(str)) \in WhiteSpace
    THEN trimEnd(SubSeq(str, 1, Len(str) - 1))
    ELSE str

trim(str) == trimEnd(trimStart(str))

addMessage(children, content, isUser, request, due) ==
    Append(children, [ class   |-> IF isUser THEN "user" ELSE "ai",
                       content |-> content,
                       request |-> request,
                       due     |-> due ])

TypingIndicator == [ class |-> "typing", id |-> "typingIndicator" ]

addTypingIndicator(children) == Append(children, TypingIndicator)

\* every element of the indicator's class removed (querySelectorAll)
removeTypingIndicatorsAll(children) ==
    SelectSeq(children, LAMBDA element : element.class # "typing")

\* getElementById finds the first element with the id in document order
removeTypingIndicator(children) ==
    IF \E i \in 1..Len(children) : children[i].class = "typing"
    THEN LET i == CHOOSE k \in 1..Len(children) :
                      /\ children[k].class = "typing"
                      /\ \A j \in 1..(k - 1) : children[j].class # "typing"
         IN  SubSeq(children, 1, i - 1) \o SubSeq(children, i + 1, Len(children))
    ELSE children

\* number of sendMessage calls that got past the empty-message test
Sent == Cardinality({ i \in 1..Len(chatMessages) : chatMessages[i].class = "user" })

\* Math.random() of the delay, in thousandths
DelayDraws == {0, 500}

\* sendMessage cancelling the timer of the message before (clearTimeout)
sendMessageDebounced(value) ==
    LET message == trim(value)
    IN  IF message = ""
        THEN UNCHANGED <<chatMessages, timeouts>>
        ELSE \E r \in DelayDraws :
                LET delay == TYPING_DELAY_MIN
                               + (r * (TYPING_DELAY_MAX - TYPING_DELAY_MIN)) \div 1000
                IN  /\ chatMessages' =
                          addTypingIndicator(
                              addMessage(chatMessages, message, TRUE, Sent + 1, clock + delay))
                    /\ timeouts' = { [ number  |-> Sent + 1,
                                       due     |-> clock + delay,
                                       message |-> message ] }

\* chatInput.value is value when sendMessage starts
sendMessage(value) ==
    LET message == trim(value)
    IN  IF message = ""
        THEN UNCHANGED <<chatMessages, timeouts>>
        ELSE \E r \in DelayDraws :
                LET delay == TYPING_DELAY_MIN
                               + (r * (TYPING_DELAY_MAX - TYPING_DELAY_MIN)) \div 1000
                IN  /\ chatMessages' =
                          addTypingIndicator(
                              addMessage(chatMessages, message, TRUE, Sent + 1, clock + delay))
                    /\ timeouts' = timeouts \cup { [ number  |-> Sent + 1,
                                                     due     |-> clock + delay,
                                                     message |-> message ] }

\* what the user typed before the click on send or the Enter key
ChatInputs == { "", "   ", "  Tell me about deadlock ", "What is my current CPU usage?" }

SendMessage ==
    /\ CallStackEmpty
    /\ Sent < MaxSent
    /\ \E value \in ChatInputs : sendMessage(value)
    /\ asked' = IF Len(chatMessages') > Len(chatMessages)
                THEN Append(asked, metrics) ELSE asked
    /\ UNCHANGED <<metrics, display, timer, ticks, ret, snap, pc, version, seen, query, reply,
                   config, lastAlerts, clock>>

\* the data-message attribute of the quick-action buttons
QuickMessages == { "Show me memory usage" }

\* sendQuickMessage appending the response in the same task, and arming
\* the timer all the same
SendQuickMessageAnsweringAtOnce ==
    /\ CallStackEmpty
    /\ Sent < MaxSent
    /\ \E message \in QuickMessages, r \in DelayDraws :
          LET delay == TYPING_DELAY_MIN
                         + (r * (TYPING_DELAY_MAX - TYPING_DELAY_MIN)) \div 1000
          IN  /\ chatMessages' =
                    addMessage(
                        addTypingIndicator(
                            addMessage(chatMessages, message, TRUE, Sent + 1, clock + delay)),
                        generateResponse(message, metrics), FALSE, Sent + 1, clock + delay)
              /\ timeouts' = timeouts \cup { [ number  |-> Sent + 1,
                                               due     |-> clock + delay,
                                               message |-> message ] }
    /\ asked' = Append(asked, metrics)
    /\ UNCHANGED <<metrics, display, timer, ticks, ret, snap, pc, version, seen, query, reply,
                   config, lastAlerts, clock>>

SendQuickMessage ==
    /\ CallStackEmpty
    /\ Sent < MaxSent
    /\ \E message \in QuickMessages : sendMessage(message)
    /\ asked' = IF Len(chatMessages') > Len(chatMessages)
                THEN Append(asked, metrics) ELSE asked
    /\ UNCHANGED <<metrics, display, timer, ticks, ret, snap, pc, version, seen, query, reply,
                   config, lastAlerts, clock>>

\* the timer the browser runs next: the one due first, the one armed
\* first among those due at the same time
DueFirst(t) ==
    \A u \in timeouts :
        \/ t.due < u.due
        \/ t.due = u.due /\ t.number <= u.number

\* sendMessage computing the response before setTimeout, the callback only
\* displaying it
TimeoutCallbackDisplayingOnly ==
    /\ CallStackEmpty
    /\ \E t \in timeouts :
          /\ DueFirst(t)
          /\ clock' = Max(clock, t.due)
          /\ chatMessages' =
                addMessage(removeTypingIndicator(chatMessages),
                           generateResponse(t.message, asked[t.number]), FALSE, t.number, t.due)
          /\ timeouts' = timeouts \ {t}
    /\ UNCHANGED <<metrics, display, timer, ticks, ret, snap, pc, version, seen, query, reply,
                   config, lastAlerts, asked>>

\* the callback of setTimeout: removeTypingIndicator, generateResponse on
\* the snapshot of that moment, addMessage
TimeoutCallback ==
    /\ CallStackEmpty
    /\ \E t \in timeouts :
          /\ DueFirst(t)
          /\ clock' = Max(clock, t.due)
          /\ chatMessages' =
                addMessage(removeTypingIndicator(chatMessages),
                           generateResponse(t.message, metrics), FALSE, t.number, t.due)
          /\ timeouts' = timeouts \ {t}
    /\ UNCHANGED <<metrics, display, timer, ticks, ret, snap, pc, version, seen, query, reply,
                   config, lastAlerts, asked>>

\* half a second passes in which no task runs: no armed timer is overdue
\* at the end of it
Wait ==
    /\ CallStackEmpty
    /\ clock < MaxWaits * (TYPING_DELAY_MIN \div 2)
    /\ \A t \in timeouts : clock + TYPING_DELAY_MIN \div 2 <= t.due
    /\ clock' = clock + TYPING_DELAY_MIN \div 2
    /\ UNCHANGED <<metrics, display, timer, ticks, ret, snap, pc, version, seen, query, reply,
                   config, lastAlerts, chatMessages, timeouts, asked>>

(***************************************************************************)
(* A consumer writing through what getMetrics handed out, as in            *)
(* window.getMetrics().cpu.usage = v typed at the console.  ThisMetrics is *)
(* the object held in this.metrics; getMetricsReference is the object      *)
(* getMetrics returns.                                                     *)
(***************************************************************************)
ThisMetrics == "this.metrics"

getMetricsReference == ThisMetrics

WrittenValues == {0, 99000}

ConsumerWrite ==
    /\ CallStackEmpty
    /\ \E v \in WrittenValues :
          /\ ret' = Call("consumerWrite", v, None)
          /\ metrics' = IF getMetricsReference = ThisMetrics
                        THEN [ metrics EXCEPT !.cpu.usage = v ]
                        ELSE metrics
    /\ UNCHANGED <<display, timer, ticks, snap, pc, version, seen, query, reply,
                   config, lastAlerts, chatVars>>

(***************************************************************************)
(* Specifications.                                                         *)
(***************************************************************************)
\* the monitor under its timer, with the calls that read it
Next ==
    \/ StartMonitoring
    \/ IntervalCallback
    \/ CheckAlerts
    \/ GetProcessByPID
    \/ GetContextSwitches

Spec == Init /\ [][Next]_vars

\* every read operation between the first MaxTicks ticks
NextReads ==
    \/ StartMonitoring
    \/ BoundedIntervalCallback
    \/ GetMetrics
    \/ CheckAlerts
    \/ GetProcessByPID
    \/ GetContextSwitches
    \/ GenerateResponse

SpecReads == Init /\ [][NextReads]_vars

\* a consumer that writes to the object getMetrics returns
NextConsumer ==
    \/ StartMonitoring
    \/ BoundedIntervalCallback
    \/ GetMetrics
    \/ CheckAlerts
    \/ ConsumerWrite

SpecConsumer == Init /\ [][NextConsumer]_vars

\* the interval callback statement by statement, interleaved with the tasks
\* that read the snapshot
NextLoop ==
    \/ StartMonitoring
    \/ TickCpu
    \/ TickMemory
    \/ TickDisk
    \/ TickNetwork
    \/ TickProcesses
    \/ TickRender
    \/ GetMetrics
    \/ CheckAlerts
    \/ GenerateResponse

SpecLoop == Init /\ [][NextLoop]_vars

(***************************************************************************)
(* generateResponse on its own: a user message and a snapshot, then the    *)
(* call.  The snapshots are the constructed one, the ones one tick away    *)
(* from it, and ones with the walks at and above the 70, 80 and 85 percent *)
(* marks.                                                                  *)
(***************************************************************************)
Queries ==
    { "", "What is my current CPU usage?", "Show me memory usage",
      "Which processes are using most resources?", "What's the disk I/O activity?",
      "Explain virtual memory", "What is process scheduling?", "Tell me about deadlock",
      "How does the CPU scheduler work?", "Explain file systems",
      "How can I optimize performance?", "Give me recommendations",
      "What should I do about high CPU?", "cpu network", "cpu", "PROCESSOR",
      "disk scheduling algorithms", "deadlock detection algorithm",
      "explain the program", "frame rate", "laptop storage", "memory and internet",
      "top", "Improve my FileSystem", "explain cpu and ram usage",
      "what is the cpu doing to memory", "application deadlock" }

RespondSnapshots ==
    { InitialMetrics }
    \cup { updateMetrics(InitialMetrics, rc, rm, s) :
             rc \in WalkDraws, rm \in WalkDraws, s \in Seeds }
    \cup { [ updateMetrics(InitialMetrics, 500, 500, s)
               EXCEPT !.cpu.usage = 72300, !.memory.used = 13000, !.memory.available = 3000 ] :
             s \in Seeds }
    \cup { [ updateMetrics(InitialMetrics, 500, 500, s)
               EXCEPT !.cpu.usage = 70000, !.memory.used = 11250, !.memory.available = 4750 ] :
             s \in Seeds }
    \cup { [ updateMetrics(InitialMetrics, 500, 500, s)
               EXCEPT !.cpu.usage = 90000, !.memory.used = 13750, !.memory.available = 2250 ] :
             s \in Seeds }

InitRespond ==
    /\ metrics \in RespondSnapshots
    /\ query \in Queries
    /\ reply = None
    /\ display = Blank
    /\ timer = "off"
    /\ ticks = 0
    /\ ret = Call("constructor", None, None)
    /\ snap = None
    /\ pc = Idle
    /\ version = [ f \in FieldGroups |-> 0 ]
    /\ seen = [ f \in FieldGroups |-> 0 ]
    /\ config = CONFIG
    /\ lastAlerts = << >>
    /\ chatMessages = << >>
    /\ timeouts = {}
    /\ clock = 0
    /\ asked = << >>

Respond ==
    /\ reply = None
    /\ reply' = generateResponse(query, metrics)
    /\ UNCHANGED <<metrics, display, timer, ticks, ret, snap, pc, version, seen, query,
                   config, lastAlerts, chatVars>>

NextRespond == Respond

SpecRespond == InitRespond /\ [][NextRespond]_vars

\* the chat on its own: messages sent, time passing, timers running
NextChat ==
    \/ SendMessage
    \/ SendQuickMessage
    \/ TimeoutCallback
    \/ Wait

SpecChat == Init /\ [][NextChat]_vars

\* the first message of the chat
FirstMessage ==
    /\ Sent = 0
    /\ SendMessage

\* one message in the chat while the monitor's timer ticks
NextAsk ==
    \/ StartMonitoring
    \/ BoundedIntervalCallback
    \/ FirstMessage
    \/ TimeoutCallback

SpecAsk == Init /\ [][NextAsk]_vars

\* what a TimeoutCallback step does to the armed timers; no other step of
\* NextChat takes a timer away
TimerRuns == \E t \in timeouts : DueFirst(t) /\ timeouts' = timeouts \ {t}

\* the browser runs the callback of every armed timer once it is due
SpecChatFair == SpecChat /\ WF_timeouts(TimerRuns)

\* the monitor under its timer with every tick counted, and checkAlerts
NextCounted ==
    \/ StartMonitoring
    \/ CountedIntervalCallback
    \/ CheckAlerts

SpecCounted == Init /\ [][NextCounted]_vars

(***************************************************************************)
(* Writes to CONFIG after config.js has loaded, from any script or the     *)
(* console, and ticks that read the catalog of names.  A write names the   *)
(* object whose property it assigns, adds or removes; on a frozen object   *)
(* it changes nothing (it is ignored, or throws in strict mode).           *)
(***************************************************************************)
Writes ==
    { "CONFIG.MONITORING.ALERT_THRESHOLD_CPU = 0", "CONFIG.SYSTEM.TOTAL_MEMORY = 0",
      "CONFIG.PROCESS_NAMES = []", "CONFIG.PROCESS_NAMES[0] = 'top'",
      "CONFIG.PROCESS_NAMES.push('top')", "CONFIG.PROCESS_NAMES.pop()",
      "CONFIG.OS_TOPICS.CPU = []", "delete CONFIG.OS_TOPICS.CPU",
      "CONFIG.OS_TOPICS.CPU.pop()" }

\* the object a write acts on
WrittenObject(w) ==
    CASE w = "CONFIG.MONITORING.ALERT_THRESHOLD_CPU = 0" -> "CONFIG.MONITORING"
      [] w = "CONFIG.SYSTEM.TOTAL_MEMORY = 0"            -> "CONFIG.SYSTEM"
      [] w = "CONFIG.PROCESS_NAMES = []"                 -> "CONFIG"
      [] w = "CONFIG.PROCESS_NAMES[0] = 'top'"           -> "CONFIG.PROCESS_NAMES"
      [] w = "CONFIG.PROCESS_NAMES.push('top')"          -> "CONFIG.PROCESS_NAMES"
      [] w = "CONFIG.PROCESS_NAMES.pop()"                -> "CONFIG.PROCESS_NAMES"
      [] w = "CONFIG.OS_TOPICS.CPU = []"                 -> "CONFIG.OS_TOPICS"
      [] w = "delete CONFIG.OS_TOPICS.CPU"               -> "CONFIG.OS_TOPICS"
      [] w = "CONFIG.OS_TOPICS.CPU.pop()"                -> "CONFIG.OS_TOPICS.CPU"

\* Array.prototype.pop
Pop(seq) == SubSeq(seq, 1, Len(seq) - 1)

\* what a write does to an object that is not frozen
Written(cfg, w) ==
    CASE w = "CONFIG.MONITORING.ALERT_THRESHOLD_CPU = 0" ->
            [ cfg EXCEPT !.ALERT_THRESHOLD_CPU = 0 ]
      [] w = "CONFIG.SYSTEM.TOTAL_MEMORY = 0" ->
            [ cfg EXCEPT !.TOTAL_MEMORY = 0 ]
      [] w = "CONFIG.PROCESS_NAMES = []" ->
            [ cfg EXCEPT !.PROCESS_NAMES = << >> ]
      [] w = "CONFIG.PROCESS_NAMES[0] = 'top'" ->
            [ cfg EXCEPT !.PROCESS_NAMES =
                [ i \in 1..Max(1, Len(@)) |-> IF i = 1 THEN "top" ELSE @[i] ] ]
      [] w = "CONFIG.PROCESS_NAMES.push('top')" ->
            [ cfg EXCEPT !.PROCESS_NAMES = Append(@, "top") ]
      [] w = "CONFIG.PROCESS_NAMES.pop()" ->
            [ cfg EXCEPT !.PROCESS_NAMES = Pop(@) ]
      [] w = "CONFIG.OS_TOPICS.CPU = []" ->
            [ cfg EXCEPT !.OS_TOPICS.CPU = << >> ]
      [] w = "delete CONFIG.OS_TOPICS.CPU" ->
            [ cfg EXCEPT !.OS_TOPICS = [ t \in DOMAIN @ \ {"CPU"} |-> @[t] ] ]
      [] w = "CONFIG.OS_TOPICS.CPU.pop()" ->
            [ cfg EXCEPT !.OS_TOPICS.CPU = Pop(@) ]

write(cfg, w) == IF WrittenObject(w) \in Frozen THEN cfg ELSE Written(cfg, w)

\* the catalog is written to at most MaxWrites times
ConfigWrite ==
    /\ CallStackEmpty
    /\ \E w \in Writes : config' = write(config, w)
    /\ Len(config'.PROCESS_NAMES) \in
          (Len(PROCESS_NAMES) - MaxWrites)..(Len(PROCESS_NAMES) + MaxWrites)
    /\ Len(config'.OS_TOPICS.CPU) >= Len(OS_TOPICS.CPU) - MaxWrites
    /\ UNCHANGED <<metrics, display, timer, ticks, ret, snap, pc, version, seen, query, reply,
                   lastAlerts, chatVars>>

\* updateMetrics with generateProcesses reading the catalog as it is now
CatalogUpdateMetrics ==
    /\ CallStackEmpty
    /\ ticks < MaxTicks
    /\ \E rc \in WalkDraws, rm \in WalkDraws, s \in Seeds :
          metrics' = [ updateMetrics(metrics, rc, rm, s) EXCEPT !.processes =
                         generateProcessesOf(config.PROCESS_NAMES, s, 5) ]
    /\ ticks' = ticks + 1
    /\ version' = [ f \in FieldGroups |-> ticks' ]
    /\ ret' = Call("updateMetrics", None, None)
    /\ UNCHANGED <<display, timer, snap, pc, seen, query, reply, config, lastAlerts, chatVars>>

NextFreeze ==
    \/ ConfigWrite
    \/ CatalogUpdateMetrics

SpecFreeze == Init /\ [][NextFreeze]_vars

(***************************************************************************)
(* The page loaded with an edited config.js: a CONFIG whose memory total,  *)
(* core count or alert thresholds are the shipped values, zero or          *)
(* negative; then new SystemMonitor() and calls of its methods.            *)
(***************************************************************************)
ShippedOrNot(value) == {value, 0, -1}

Configs ==
    { [ CONFIG EXCEPT !.ALERT_THRESHOLD_CPU    = c,
                      !.ALERT_THRESHOLD_MEMORY = m,
                      !.CPU_CORES              = n,
                      !.TOTAL_MEMORY           = t ] :
        c \in ShippedOrNot(ALERT_THRESHOLD_CPU), m \in ShippedOrNot(ALERT_THRESHOLD_MEMORY),
        n \in ShippedOrNot(CPU_CORES), t \in ShippedOrNot(TOTAL_MEMORY) }

InitConfig ==
    /\ config \in Configs
    /\ metrics = None
    /\ display = Blank
    /\ timer = "off"
    /\ ticks = 0
    /\ ret = Call("config.js", None, None)
    /\ snap = None
    /\ pc = Idle
    /\ version = [ f \in FieldGroups |-> 0 ]
    /\ seen = [ f \in FieldGroups |-> 0 ]
    /\ query = None
    /\ reply = None
    /\ lastAlerts = << >>
    /\ chatMessages = << >>
    /\ timeouts = {}
    /\ clock = 0
    /\ asked = << >>

Construct ==
    /\ metrics = None
    /\ metrics' = constructor(config)
    /\ ret' = Call("constructor", None, None)
    /\ UNCHANGED <<display, timer, ticks, snap, pc, version, seen, query, reply,
                   config, lastAlerts, chatVars>>

ConfigUpdateMetrics ==
    /\ metrics # None
    /\ ticks < MaxTicks
    /\ \E rc \in WalkDraws, rm \in WalkDraws, s \in Seeds :
          metrics' = updateMetrics(metrics, rc, rm, s)
    /\ ticks' = ticks + 1
    /\ version' = [ f \in FieldGroups |-> ticks' ]
    /\ ret' = Call("updateMetrics", None, None)
    /\ UNCHANGED <<display, timer, snap, pc, seen, query, reply,
                   config, lastAlerts, chatVars>>

ConfigCheckAlerts ==
    /\ metrics # None
    /\ ret' = Call("checkAlerts", None, checkAlertsUnder(config, metrics))
    /\ UNCHANGED <<metrics, display, timer, ticks, snap, pc, version, seen, query, reply,
                   config, lastAlerts, chatVars>>

NextConfig ==
    \/ Construct
    \/ ConfigUpdateMetrics
    \/ ConfigCheckAlerts

SpecConfig == InitConfig /\ [][NextConfig]_vars

(***************************************************************************)
(* C1: after any number of updateMetrics calls cpu.usage is within         *)
(* [5, 95] percent and memory.used within [2, 14] GB.                      *)
(***************************************************************************)
MetricsInRange ==
    /\ metrics.cpu.usage >= 5000 /\ metrics.cpu.usage <= 95000
    /\ metrics.memory.used >= 2000 /\ metrics.memory.used <= 14000

\* both clamps have acted: the walks sit on the upper cpu bound and the
\* lower memory bound after a tick
MetricsInRangeWitness ==
    /\ ticks > 0
    /\ metrics.cpu.usage = 95000
    /\ metrics.memory.used = 2000

(***************************************************************************)
(* C2: memory.available equals memory.total minus memory.used at           *)
(* construction and after every tick.                                      *)
(***************************************************************************)
AvailableIsTotalMinusUsed ==
    metrics.memory.available = metrics.memory.total - metrics.memory.used

\* a tick has moved memory.used away from its seed value
AvailableIsTotalMinusUsedWitness ==
    /\ ticks > 0
    /\ metrics.memory.used = 8750
    /\ metrics.memory.available = 7250

(***************************************************************************)
(* C3: the processes sequence is sorted in descending cpu order and its    *)
(* length is min(catalog size, MAX_PROCESSES_DISPLAY).                     *)
(***************************************************************************)
SortedByCpuDescending(processes) ==
    \A i \in 1..(Len(processes) - 1) : processes[i].cpu >= processes[i + 1].cpu

DisplayedLength == Min(Len(PROCESS_NAMES), MAX_PROCESSES_DISPLAY)

\* C3 as claimed: in every state, from construction onward
ProcessesSortedFullLengthAlways ==
    /\ SortedByCpuDescending(metrics.processes)
    /\ Len(metrics.processes) = DisplayedLength

\* C3 as amended: sorted in every state; empty at construction, of length
\* min(catalog size, MAX_PROCESSES_DISPLAY) once updateMetrics has run
ProcessesSortedFullLengthAfterTick ==
    /\ SortedByCpuDescending(metrics.processes)
    /\ ticks = 0 => Len(metrics.processes) = 0
    /\ ticks > 0 => Len(metrics.processes) = DisplayedLength

\* a generated table in which the sort had to move entries: its first entry
\* is not the first catalog name, and two neighbours have equal cpu
ProcessesSortedFullLengthWitness ==
    /\ ticks > 0
    /\ Len(metrics.processes) = DisplayedLength
    /\ metrics.processes[1].name # PROCESS_NAMES[1]
    /\ \E i \in 1..(Len(metrics.processes) - 1) :
          metrics.processes[i].cpu = metrics.processes[i + 1].cpu

(***************************************************************************)
(* C4: checkAlerts returns one cpu alert iff cpu.usage is strictly above   *)
(* the cpu threshold, followed by one memory alert iff used / total * 100  *)
(* is strictly above the memory threshold, each independently of the       *)
(* other; never more than two alerts, the cpu alert first.                 *)
(***************************************************************************)
CountOfType(alerts, type) ==
    Cardinality({ i \in 1..Len(alerts) : alerts[i].type = type })

AlertsMatch(alerts, m) ==
    /\ Len(alerts) <= 2
    /\ \A i \in 1..Len(alerts) :
          alerts[i].type \in {"cpu", "memory"} /\ alerts[i].severity = "high"
    /\ CountOfType(alerts, "cpu") =
          (IF m.cpu.usage > ALERT_THRESHOLD_CPU * 1000 THEN 1 ELSE 0)
    /\ CountOfType(alerts, "memory") =
          (IF m.memory.used * 100 > ALERT_THRESHOLD_MEMORY * m.memory.total THEN 1 ELSE 0)
    /\ Len(alerts) = 2 => alerts[1].type = "cpu" /\ alerts[2].type = "memory"

AlertsExact == ret.op = "checkAlerts" => AlertsMatch(ret.val, metrics)

\* checkAlerts has returned both alerts, the cpu alert first
AlertsExactWitness ==
    /\ ret.op = "checkAlerts"
    /\ ret.val = << CpuAlert, MemoryAlert >>

(***************************************************************************)
(* C5: the snapshot is single-writer: only updateMetrics changes it;       *)
(* getMetrics, checkAlerts, getProcessByPID, getContextSwitches,           *)
(* generateResponse and the dashboard's rendering leave every field as it  *)
(* was.                                                                    *)
(***************************************************************************)
SingleWriter == [][metrics' # metrics => ret'.op = "updateMetrics"]_vars

\* after a tick, getMetrics and then further reads have run, the last of them
\* generateResponse answering from the process table
SingleWriterWitness ==
    /\ ticks > 0
    /\ snap # None
    /\ snap.between
    /\ ret.op = "generateResponse"
    /\ ret.val.template = "TopProcesses"
    /\ Len(metrics.processes) = DisplayedLength

(***************************************************************************)
(* C6: two getMetrics calls with no updateMetrics between them return      *)
(* equal values, whatever other reads run between the two.                 *)
(***************************************************************************)
SnapshotReadIdempotent ==
    [][(ret'.op = "getMetrics" /\ snap # None) => ret'.val = snap.val]_vars

\* a second getMetrics call has returned, after another read that followed
\* the first
SnapshotReadIdempotentWitness ==
    /\ ticks > 0
    /\ ret.op = "getMetrics"
    /\ snap # None
    /\ snap.calls = 2
    /\ snap.between
    /\ ret.val = snap.val

(***************************************************************************)
(* C7: what getMetrics hands out is a read-only copy or an immutable view: *)
(* a write by a consumer on the returned object does not change the        *)
(* snapshot the simulator holds.                                           *)
(***************************************************************************)
ConsumerWriteIsolated == [][ret'.op = "consumerWrite" => metrics' = metrics]_vars

(***************************************************************************)
(* C8: under every interleaving of the interval callback, the dashboard    *)
(* rendering and the chat response callbacks, a reader finds all groups of *)
(* fields of the snapshot written by the same tick, never some by one tick *)
(* and some by the one before.                                             *)
(***************************************************************************)
NoTornRead == \A f \in FieldGroups, g \in FieldGroups : seen[f] = seen[g]

\* a chat response callback has read the snapshot of a completed tick while
\* the next interval callback has not started
NoTornReadWitness ==
    /\ ticks > 0
    /\ pc.at = "idle"
    /\ ret.op = "generateResponse"
    /\ seen["cpu"] = ticks
    /\ seen["processes"] = ticks

(***************************************************************************)
(* Categories of generateResponse: the keywords that select a category,    *)
(* the secondary keywords of the categories that have them, and the        *)
(* templates a category can answer with.                                   *)
(***************************************************************************)
CategoryOrder ==
    << "CPU", "Memory", "Process", "Disk", "Network", "Optimization",
       "Scheduling", "Deadlock", "FileSystem", "Default" >>

CategoryKeywords ==
    [ CPU          |-> {"cpu", "processor"},
      Memory       |-> {"memory", "ram"},
      Process      |-> {"process", "application", "top"},
      Disk         |-> {"disk", "i/o", "storage"},
      Network      |-> {"network", "internet"},
      Optimization |-> {"optimize", "improve", "recommend"},
      Scheduling   |-> {"schedul", "algorithm"},
      Deadlock     |-> {"deadlock"},
      FileSystem   |-> {"file system", "filesystem"},
      Default      |-> {""} ]

SecondaryKeywords ==
    [ CPU     |-> {"usage", "current", "explain", "what is"},
      Memory  |-> {"usage", "current", "show", "virtual", "explain"},
      Process |-> {"using", "consuming", "most", "explain", "what is"} ]

CategoryTemplates ==
    [ CPU          |-> {"CurrentCpuStatus", "CpuProcessManagement"},
      Memory       |-> {"MemoryStatus", "VirtualMemoryManagement"},
      Process      |-> {"TopProcesses", "ProcessManagement"},
      Disk         |-> {"DiskIOStatus"},
      Network      |-> {"NetworkActivity"},
      Optimization |-> {"OptimizationRecommendations"},
      Scheduling   |-> {"CpuSchedulingAlgorithms"},
      Deadlock     |-> {"DeadlockInOS"},
      FileSystem   |-> {"FileSystemManagement"},
      Default      |-> {"Default"} ]

ContainsAny(text, words) == \E w \in words : includes(text, w)

Matches(c, text) == ContainsAny(text, CategoryKeywords[c])

Produces(c, text) ==
    /\ Matches(c, text)
    /\ c \in DOMAIN SecondaryKeywords => ContainsAny(text, SecondaryKeywords[c])

\* position in CategoryOrder of the first category from position i on that
\* produces a response; Default always does
FirstProducingFrom(i, text) ==
    CHOOSE k \in i..Len(CategoryOrder) :
        /\ Produces(CategoryOrder[k], text)
        /\ \A j \in i..(k - 1) : ~Produces(CategoryOrder[j], text)

(***************************************************************************)
(* C9: generateResponse answers with the template of the first category,   *)
(* in the order CPU, Memory, Process, Disk, Network, Optimization,         *)
(* Scheduling, Deadlock, FileSystem, Default, that produces a response.    *)
(***************************************************************************)
FirstCategoryWins ==
    reply # None =>
        reply.template \in
            CategoryTemplates[CategoryOrder[FirstProducingFrom(1, toLowerCase(query))]]

\* a message with a deadlock and a scheduling keyword got the scheduling
\* template
FirstCategoryWinsWitness ==
    /\ query = "deadlock detection algorithm"
    /\ reply = SchedulingResponse

(***************************************************************************)
(* C10: a message with the keyword of the CPU, Memory or Process category  *)
(* and none of that category's secondary keywords gets no response from    *)
(* that category: the response is the one of the first later category that *)
(* produces one, the Default template when no later category matches.      *)
(***************************************************************************)
FallsThrough(i, text) ==
    /\ CategoryOrder[i] \in DOMAIN SecondaryKeywords
    /\ Matches(CategoryOrder[i], text)
    /\ \A j \in 1..i : ~Produces(CategoryOrder[j], text)

FallThrough ==
    reply # None =>
        \A i \in 1..Len(CategoryOrder) :
            FallsThrough(i, toLowerCase(query)) =>
                /\ reply.template \notin CategoryTemplates[CategoryOrder[i]]
                /\ reply.template \in
                      CategoryTemplates[CategoryOrder[FirstProducingFrom(i + 1, toLowerCase(query))]]
                /\ (\A j \in (i + 1)..(Len(CategoryOrder) - 1) :
                        ~Matches(CategoryOrder[j], toLowerCase(query)))
                      => reply = DefaultResponse

\* "cpu network" got the network template, and "cpu" alone the default one
FallThroughWitness ==
    \/ /\ query = "cpu network"
       /\ reply # None
       /\ reply.template = "NetworkActivity"
       /\ metrics.network.sent > 0
    \/ /\ query = "cpu"
       /\ reply = DefaultResponse
       /\ metrics.network.sent > 0

(***************************************************************************)
(* C11: generateResponse is total: for every message, the empty one        *)
(* included, and every snapshot, the constructed one with its empty        *)
(* process list included, it returns one of the thirteen templates; a      *)
(* message with no category keyword gets exactly the Default template.     *)
(***************************************************************************)
Templates == UNION { CategoryTemplates[c] : c \in DOMAIN CategoryTemplates }

RespondTotal ==
    reply # None =>
        /\ "template" \in DOMAIN reply
        /\ reply.template \in Templates
        /\ (\A i \in 1..(Len(CategoryOrder) - 1) :
                ~Matches(CategoryOrder[i], toLowerCase(query)))
              => reply = DefaultResponse

\* the empty message got the default text, and the top-processes message
\* an empty list of rows, both on the constructed snapshot
RespondTotalWitness ==
    /\ metrics = InitialMetrics
    /\ \/ query = "" /\ reply = DefaultResponse
       \/ /\ query = "Which processes are using most resources?"
          /\ reply # None
          /\ reply.template = "TopProcesses"
          /\ reply.rows = << >>

(***************************************************************************)
(* C12: the template generateResponse selects depends on the message only: *)
(* any other snapshot gives the same template, and for the virtual-memory, *)
(* scheduling, deadlock, file-system and default templates the same        *)
(* response altogether.                                                    *)
(***************************************************************************)
StaticTemplates ==
    { "VirtualMemoryManagement", "CpuSchedulingAlgorithms", "DeadlockInOS",
      "FileSystemManagement", "Default" }

TemplateFromQueryOnly ==
    reply # None =>
        \A other \in RespondSnapshots :
            /\ generateResponse(query, other).template = reply.template
            /\ reply.template \in StaticTemplates => generateResponse(query, other) = reply

\* the virtual-memory text was returned on a snapshot with memory above 80
\* percent
TemplateFromQueryOnlyWitness ==
    /\ query = "Explain virtual memory"
    /\ reply = MemoryTheoryResponse
    /\ metrics.memory.used = 13750

(***************************************************************************)
(* C13: a message with "cpu" or "processor" and "usage" or "current" gets  *)
(* the CPU status text with the snapshot's usage to one decimal, core      *)
(* count and frequency, whatever other keywords it has; the high-usage     *)
(* clause is in it exactly when cpu.usage is above 70.                     *)
(***************************************************************************)
CpuStatusFirst ==
    (/\ reply # None
     /\ ContainsAny(toLowerCase(query), {"cpu", "processor"})
     /\ ContainsAny(toLowerCase(query), {"usage", "current"}))
        => /\ reply.template = "CurrentCpuStatus"
           /\ reply.usage * 100 - 50 <= metrics.cpu.usage
           /\ metrics.cpu.usage < reply.usage * 100 + 50
           /\ reply.cores = metrics.cpu.cores
           /\ reply.frequency = metrics.cpu.frequency
           /\ reply.high <=> metrics.cpu.usage > 70 * 1000

\* "explain cpu and ram usage" on a snapshot at exactly 70 percent: the
\* status text, without the high-usage clause
CpuStatusFirstWitness ==
    /\ query = "explain cpu and ram usage"
    /\ metrics.cpu.usage = 70000
    /\ reply # None
    /\ reply.template = "CurrentCpuStatus"
    /\ ~reply.high

(***************************************************************************)
(* C14: getProcessByPID returns NotFound exactly when no entry of the      *)
(* current process list has the pid, and otherwise the first entry with    *)
(* it in list order; the call leaves the snapshot as it was, also for a    *)
(* pid that only a replaced list had.                                      *)
(***************************************************************************)
FirstWithPid(processes, pid, found) ==
    \E i \in 1..Len(processes) :
        /\ processes[i] = found
        /\ processes[i].pid = pid
        /\ \A j \in 1..(i - 1) : processes[j].pid # pid

LookupExact ==
    [][ret'.op = "getProcessByPID" =>
          /\ metrics' = metrics
          /\ ret'.val = NotFound <=>
                 \A i \in 1..Len(metrics.processes) : metrics.processes[i].pid # ret'.arg
          /\ ret'.val # NotFound => FirstWithPid(metrics.processes, ret'.arg, ret'.val)]_vars

\* pid 3700 is only in the list of one seed: after a later tick replaced
\* that list, the lookup of 3700 returned NotFound
LookupExactWitness ==
    /\ ret.op = "getProcessByPID"
    /\ ret.arg = 3700
    /\ ret.val = NotFound
    /\ ticks >= 2
    /\ Len(metrics.processes) = MAX_PROCESSES_DISPLAY

(***************************************************************************)
(* C15: getContextSwitches is floor(cpu.usage * 100) and nothing else: it  *)
(* is within [500, 9500] in every reachable state and 3500 before the      *)
(* first tick.                                                             *)
(***************************************************************************)
ContextSwitchesDerived ==
    ret.op = "getContextSwitches" =>
        /\ ret.val * 10 <= metrics.cpu.usage
        /\ metrics.cpu.usage < (ret.val + 1) * 10
        /\ ret.val >= 500
        /\ ret.val <= 9500
        /\ ticks = 0 => ret.val = 3500

\* the call after ticks with the walk at its upper bound returned 9500
ContextSwitchesDerivedWitness ==
    /\ ret.op = "getContextSwitches"
    /\ ticks > 0
    /\ metrics.cpu.usage = 95000
    /\ ret.val = 9500

(***************************************************************************)
(* C16: no SystemMonitor exists for a CONFIG with a zero or negative       *)
(* memory total, core count or alert threshold: the construction is        *)
(* refused.                                                                *)
(***************************************************************************)
ValidConfig(cfg) ==
    /\ cfg.TOTAL_MEMORY > 0
    /\ cfg.CPU_CORES > 0
    /\ cfg.ALERT_THRESHOLD_CPU > 0
    /\ cfg.ALERT_THRESHOLD_MEMORY > 0

ConfigValidated == metrics # None => ValidConfig(config)

(***************************************************************************)
(* C17: the alerts carry nothing from one evaluation to the next: after    *)
(* every tick the alerts area has the cpu alert exactly when cpu.usage is  *)
(* above its threshold and the memory alert exactly when the memory        *)
(* percentage is above its threshold, whatever the area had before; it is  *)
(* empty when neither is.                                                  *)
(***************************************************************************)
InAlerts(type, area) == \E i \in 1..Len(area) : area[i] = type

AlertsStateless ==
    [][ret'.op = "updateMetrics" =>
          /\ InAlerts("cpu", display'.alerts)
                <=> metrics'.cpu.usage > ALERT_THRESHOLD_CPU * 1000
          /\ InAlerts("memory", display'.alerts)
                <=> metrics'.memory.used * 100 > ALERT_THRESHOLD_MEMORY * metrics'.memory.total
          /\ (/\ metrics'.cpu.usage <= ALERT_THRESHOLD_CPU * 1000
              /\ metrics'.memory.used * 100 <= ALERT_THRESHOLD_MEMORY * metrics'.memory.total)
                => display'.alerts = << >>]_vars

\* a tick brought cpu.usage from above the threshold back to exactly 85:
\* the area that had the cpu alert is empty
AlertsStatelessWitness ==
    /\ InAlerts("cpu", lastAlerts)
    /\ metrics.cpu.usage = ALERT_THRESHOLD_CPU * 1000
    /\ display.alerts = << >>

(***************************************************************************)
(* C18: the AI responses in the chat are in the order in which their       *)
(* messages were sent, also when their delays overlap.                     *)
(***************************************************************************)
IsResponse(i) == chatMessages[i].class = "ai"

ResponsesInRequestOrder ==
    \A i \in 1..Len(chatMessages), j \in 1..Len(chatMessages) :
        (i < j /\ IsResponse(i) /\ IsResponse(j))
            => chatMessages[i].request < chatMessages[j].request

(***************************************************************************)
(* C19: a new message never cancels or replaces a pending response: every  *)
(* sent message has either its timer armed or exactly one response, so     *)
(* with no timer armed there are as many responses as sent messages; and   *)
(* with every armed timer run, every sent message gets its response.       *)
(***************************************************************************)
ResponsesTo(n) ==
    Cardinality({ i \in 1..Len(chatMessages) :
                    IsResponse(i) /\ chatMessages[i].request = n })

TimeoutsOf(n) == Cardinality({ t \in timeouts : t.number = n })

Responses == Cardinality({ i \in 1..Len(chatMessages) : IsResponse(i) })

NoCancellation ==
    /\ [](\A n \in 1..MaxSent :
             IF n <= Sent
             THEN ResponsesTo(n) + TimeoutsOf(n) = 1
             ELSE ResponsesTo(n) + TimeoutsOf(n) = 0)
    /\ [](timeouts = {} => Responses = Sent)
    /\ \A n \in 1..MaxSent : (n <= Sent) ~> (ResponsesTo(n) = 1)

\* two messages sent one right after the other, then both answered
NoCancellationWitness ==
    /\ timeouts = {}
    /\ Len(chatMessages) = 4
    /\ chatMessages[1].class = "user"
    /\ chatMessages[2].class = "user"
    /\ IsResponse(3)
    /\ IsResponse(4)

(***************************************************************************)
(* C20: a response is in the chat only after the timer of its message ran, *)
(* not before the time it was due, and below the user message it answers.  *)
(***************************************************************************)
ResponseAfterDelay ==
    \A j \in 1..Len(chatMessages) :
        IsResponse(j) =>
            /\ \E i \in 1..(j - 1) :
                  /\ chatMessages[i].class = "user"
                  /\ chatMessages[i].request = chatMessages[j].request
            /\ \A t \in timeouts : t.number # chatMessages[j].request
            /\ clock >= chatMessages[j].due
            /\ chatMessages[j].due >= TYPING_DELAY_MIN

\* the second message is answered while the timer of the first is armed
ResponseAfterDelayWitness ==
    /\ \E j \in 1..Len(chatMessages) : IsResponse(j) /\ chatMessages[j].request = 2
    /\ \E t \in timeouts : t.number = 1

(***************************************************************************)
(* C21: each of the README's example optimization queries is answered      *)
(* with the optimization recommendations, on every snapshot.               *)
(***************************************************************************)
OptimizationExamples ==
    { "How can I optimize performance?", "Give me recommendations",
      "What should I do about high CPU?" }

OptimizationExamplesAnswered ==
    (reply # None /\ query \in OptimizationExamples)
        => reply.template = "OptimizationRecommendations"

(***************************************************************************)
(* C22: the configuration is immutable once config.js has loaded: no       *)
(* assignment, addition or removal on CONFIG, its groups, PROCESS_NAMES or *)
(* the lists of OS_TOPICS changes a value, and every tick uses the catalog *)
(* of names as loaded.                                                     *)
(***************************************************************************)
ConfigImmutable ==
    /\ config = CONFIG
    /\ \A i \in 1..Len(metrics.processes) :
          \E j \in 1..Len(PROCESS_NAMES) : metrics.processes[i].name = PROCESS_NAMES[j]

(***************************************************************************)
(* C23: updateMetrics changes cpu.usage, memory.used, memory.available,    *)
(* the disk and network rates and the process list only: cpu.cores,        *)
(* cpu.frequency, memory.total and disk.usage are 8, 3.5, 16 and 45 in     *)
(* every reachable state, and the snapshot has no other field.             *)
(***************************************************************************)
FixedFields ==
    /\ DOMAIN metrics = {"cpu", "memory", "disk", "network", "processes"}
    /\ DOMAIN metrics.cpu = {"usage", "cores", "frequency"}
    /\ DOMAIN metrics.memory = {"used", "total", "available"}
    /\ DOMAIN metrics.disk = {"read", "write", "usage"}
    /\ DOMAIN metrics.network = {"sent", "received"}
    /\ metrics.cpu.cores = 8
    /\ metrics.cpu.frequency = 35
    /\ metrics.memory.total = 16 * 1000
    /\ metrics.disk.usage = 45

\* after ticks that changed every field updateMetrics writes
FixedFieldsWitness ==
    /\ ticks >= 2
    /\ metrics.cpu.usage # InitialMetrics.cpu.usage
    /\ metrics.memory.used # InitialMetrics.memory.used
    /\ metrics.memory.available # InitialMetrics.memory.available
    /\ metrics.disk.read > 0
    /\ metrics.disk.write > 0
    /\ metrics.network.sent > 0
    /\ metrics.network.received > 0
    /\ Len(metrics.processes) = MAX_PROCESSES_DISPLAY

(***************************************************************************)
(* C24: every entry of the process list has a name of the catalog, no two  *)
(* entries the same name, a pid in [1000, 9999], cpu in [0, 25), memory in *)
(* [0, 1024), status low, medium or high and one of the four states; the   *)
(* status does not follow from cpu.                                        *)
(***************************************************************************)
ProcessEntriesInRange ==
    \A i \in 1..Len(metrics.processes) :
        LET proc == metrics.processes[i]
        IN  /\ \E n \in 1..Len(PROCESS_NAMES) : proc.name = PROCESS_NAMES[n]
            /\ \A j \in 1..Len(metrics.processes) :
                  j # i => metrics.processes[j].name # proc.name
            /\ proc.pid >= 1000
            /\ proc.pid <= 9999
            /\ proc.cpu >= 0
            /\ proc.cpu < 25 * 1000
            /\ proc.memory >= 0
            /\ proc.memory < 1024 * 1000
            /\ proc.status \in {"low", "medium", "high"}
            /\ proc.state \in {"running", "ready", "waiting", "sleeping"}

\* the entry with the highest cpu is tagged low and one with less cpu high
ProcessEntriesInRangeWitness ==
    /\ Len(metrics.processes) = MAX_PROCESSES_DISPLAY
    /\ metrics.processes[1].status = "low"
    /\ \E i \in 2..Len(metrics.processes) :
          /\ metrics.processes[i].status = "high"
          /\ metrics.processes[i].cpu < metrics.processes[1].cpu

(***************************************************************************)
(* C25: startMonitoring renders the constructed snapshot without a tick,   *)
(* and every interval callback renders after its updateMetrics: whenever   *)
(* no callback is running, the displayed figures are those of the current  *)
(* snapshot and the displayed alerts those of checkAlerts on it.           *)
(***************************************************************************)
\* shown is value, given in units of 1 / scale, rounded to the nearest unit
Rounded(shown, value, scale) ==
    /\ 2 * shown * scale - scale <= 2 * value
    /\ 2 * value < 2 * shown * scale + scale

DisplayOfSnapshot ==
    (timer = "armed" /\ CallStackEmpty) =>
        /\ ticks = 0 => metrics = InitialMetrics
        /\ Rounded(display.cpu.cpuValue, metrics.cpu.usage, 100)
        /\ Rounded(display.memory.memoryLabel[1], metrics.memory.used, 100)
        /\ Rounded(display.disk.diskValue, metrics.disk.read + metrics.disk.write, 100)
        /\ Rounded(display.network.networkValue,
                   metrics.network.sent + metrics.network.received, 1000)
        /\ Len(display.processes) = Len(metrics.processes)
        /\ \A i \in 1..Len(metrics.processes) :
              /\ display.processes[i].name = metrics.processes[i].name
              /\ display.processes[i].pid = metrics.processes[i].pid
              /\ Rounded(display.processes[i].cpu, metrics.processes[i].cpu, 100)
        /\ InAlerts("cpu", display.alerts)
              <=> metrics.cpu.usage > ALERT_THRESHOLD_CPU * 1000
        /\ InAlerts("memory", display.alerts)
              <=> metrics.memory.used * 100 > ALERT_THRESHOLD_MEMORY * metrics.memory.total
        /\ Len(display.alerts) <= 2

\* after a callback that took cpu.usage to 90: 90.0 and the cpu alert shown
DisplayOfSnapshotWitness ==
    /\ timer = "armed"
    /\ ret.op = "updateMetrics"
    /\ metrics.cpu.usage = 90000
    /\ display.cpu.cpuValue = 900
    /\ display.alerts = << "cpu" >>

(***************************************************************************)
(* C26: one tick moves cpu.usage by at most 5 and memory.used by at most   *)
(* 0.25, so checkAlerts returns no cpu alert after any of the first 10     *)
(* ticks and no memory alert after any of the first 20; both alerts are    *)
(* returned after enough ticks.                                            *)
(***************************************************************************)
Distance(a, b) == IF a >= b THEN a - b ELSE b - a

Returned(alert) == \E i \in 1..Len(ret.val) : ret.val[i] = alert

GradualDrift ==
    /\ [][ret'.op = "updateMetrics" =>
            /\ Distance(metrics'.cpu.usage, metrics.cpu.usage) <= 5 * 1000
            /\ Distance(metrics'.memory.used, metrics.memory.used) <= 250]_vars
    /\ [](ret.op = "checkAlerts" =>
            /\ ticks <= 10 => ~Returned(CpuAlert)
            /\ ticks <= 20 => ~Returned(MemoryAlert))

\* after 21 ticks checkAlerts returned both alerts
GradualDriftWitness ==
    /\ ret.op = "checkAlerts"
    /\ ticks = 21
    /\ ret.val = << CpuAlert, MemoryAlert >>

(***************************************************************************)
(* C27: a response is computed when its timer runs, from the snapshot of   *)
(* that moment and not from the one current when the message was sent:     *)
(* after a tick in between, the CPU status response has the new usage.     *)
(***************************************************************************)
ResponseFromCurrentSnapshot ==
    [][(Len(chatMessages') > 0 /\ Responses' > Responses) =>
          LET response == chatMessages'[Len(chatMessages')].content
          IN  response.template = "CurrentCpuStatus" =>
                  /\ Rounded(response.usage, metrics.cpu.usage, 100)
                  /\ response.contextSwitches * 10 <= metrics.cpu.usage
                  /\ metrics.cpu.usage < (response.contextSwitches + 1) * 10]_vars

\* the usage in the response is not the one of the snapshot current when
\* the message was sent
ResponseFromCurrentSnapshotWitness ==
    \E j \in 1..Len(chatMessages) :
        /\ IsResponse(j)
        /\ chatMessages[j].content.template = "CurrentCpuStatus"
        /\ ~Rounded(chatMessages[j].content.usage,
                    asked[chatMessages[j].request].cpu.usage, 100)

(***************************************************************************)
(* C28: the chat shows as many typing indicators as there are responses    *)
(* pending, whatever the order of messages sent and timers run; with no    *)
(* response pending there is none.                                         *)
(***************************************************************************)
TypingIndicators ==
    Cardinality({ i \in 1..Len(chatMessages) : chatMessages[i] = TypingIndicator })

IndicatorPerPendingResponse ==
    /\ TypingIndicators = Cardinality(timeouts)
    /\ timeouts = {} => \A i \in 1..Len(chatMessages) : chatMessages[i].class # "typing"

\* of two messages the second is answered: one indicator for the first
IndicatorPerPendingResponseWitness ==
    /\ Sent = 2
    /\ TypingIndicators = 1
    /\ \E t \in timeouts : t.number = 1
    /\ ResponsesTo(2) = 1

(***************************************************************************)
(* C29: whenever checkAlerts returns the cpu alert, the CPU status         *)
(* response has the high-usage clause and the optimization response the    *)
(* cpu recommendation; whenever it returns the memory alert, the memory    *)
(* status response has the memory-pressure clause and the optimization     *)
(* response the memory recommendation.                                     *)
(***************************************************************************)
AlertsAgreeWithWording ==
    ret.op = "checkAlerts" =>
        LET cpuStatus    == generateResponse("What is my current CPU usage?", metrics)
            memoryStatus == generateResponse("Show me memory usage", metrics)
            optimization == generateResponse("How can I optimize performance?", metrics)
        IN  /\ Returned(CpuAlert) =>
                  /\ cpuStatus.template = "CurrentCpuStatus"
                  /\ cpuStatus.high
                  /\ optimization.template = "OptimizationRecommendations"
                  /\ optimization.cpu
            /\ Returned(MemoryAlert) =>
                  /\ memoryStatus.template = "MemoryStatus"
                  /\ memoryStatus.pressure
                  /\ optimization.template = "OptimizationRecommendations"
                  /\ optimization.memory

\* checkAlerts returned both alerts, with cpu.usage at 90
AlertsAgreeWithWordingWitness ==
    /\ ret.op = "checkAlerts"
    /\ ret.val = << CpuAlert, MemoryAlert >>
    /\ metrics.cpu.usage = 90000

====
